---- MODULE Spec2Model ----
(***************************************************************************)
(* Model of .github/workflows/issues.py, the psutil issue bot: one run of  *)
(* main() over one event, the add_label policy, and the keyword            *)
(* classifier.  Texts are TLA+ strings; Python's str operations (lower,    *)
(* in, replace, the % operator, re.search) are operators over them.        *)
(***************************************************************************)
EXTENDS Integers, Sequences, FiniteSets, TLC

\* ---------------------------------------------------------------- bounds

\* largest number of labels the issue carries when it is fetched
MaxInitialLabels == 1
\* largest number of fragments concatenated into one classifier input
MaxWords == 2
\* largest number of add_label calls applied in a row to one handle
MaxCalls == 2

\* ---------------------------------------------------------------- str

UPPERCASE == "ABCDEFGHIJKLMNOPQRSTUVWXYZ"
LOWERCASE == "abcdefghijklmnopqrstuvwxyz"

\* the lower-case letter of every upper-case ASCII letter
LowerOf ==
    [c \in {SubSeq(UPPERCASE, i, i) : i \in 1..Len(UPPERCASE)} |->
        LET i == CHOOSE j \in 1..Len(UPPERCASE) : SubSeq(UPPERCASE, j, j) = c
        IN  SubSeq(LOWERCASE, i, i)]

\* str.lower() on one character (ASCII)
LowerChar(c) == IF c \in DOMAIN LowerOf THEN LowerOf[c] ELSE c

RECURSIVE Lower(_)
\* str.lower()
Lower(s) ==
    IF Len(s) = 0 THEN ""
    ELSE LowerChar(SubSeq(s, 1, 1)) \o Lower(SubSeq(s, 2, Len(s)))

\* needle in hay
Contains(hay, needle) ==
    \E i \in 1..(Len(hay) - Len(needle) + 1) :
        SubSeq(hay, i, i + Len(needle) - 1) = needle

RECURSIVE RemoveSpaces(_)
\* str.replace(' ', '')
RemoveSpaces(s) ==
    IF Len(s) = 0 THEN ""
    ELSE (IF SubSeq(s, 1, 1) = " " THEN "" ELSE SubSeq(s, 1, 1))
         \o RemoveSpaces(SubSeq(s, 2, Len(s)))

\* number of conversion specifiers of a format string
NumSpecs(fmt) == Cardinality({i \in 1..Len(fmt) : SubSeq(fmt, i, i) = "%"})

\* fmt % (arg) with one string argument: TRUE when the formatting succeeds,
\* FALSE when it raises TypeError (not all arguments converted / not enough
\* arguments)
FormatOk(fmt) == NumSpecs(fmt) = 1

\* re.search(marker + r".*?\n", text): the leftmost occurrence of the marker
\* that is followed by a newline, up to and including the first such newline
ReSearch(marker, text) ==
    LET starts == {i \in 1..Len(text) :
                      /\ i + Len(marker) - 1 <= Len(text)
                      /\ SubSeq(text, i, i + Len(marker) - 1) = marker
                      /\ \E j \in (i + Len(marker))..Len(text) :
                            SubSeq(text, j, j) = "\n"}
    IN  IF starts = {} THEN [found |-> FALSE, group |-> ""]
        ELSE LET i == CHOOSE s \in starts : \A t \in starts : s <= t
                 j == CHOOSE e \in (i + Len(marker))..Len(text) :
                         /\ SubSeq(text, e, e) = "\n"
                         /\ \A f \in (i + Len(marker))..(e - 1) :
                               SubSeq(text, f, f) # "\n"
             IN  [found |-> TRUE, group |-> SubSeq(text, i, j)]

\* ---------------------------------------------------------------- constants

\* the *.py files of the scripts directory, appended to the 'scripts' keywords
ScriptFiles == <<"top.py">>

LABELS_MAP_LITERAL == <<
    [label |-> "linux", keywords |-> <<
        "/proc/disk", "/proc/net", "/proc/smaps", "/proc/vmstat",
        "/sys/class", "alpine", "apt ", "apt-", "archlinux", "centos",
        "debian", "fedora", "gentoo", "kali", "linux", "manylinux", "mint",
        "opensuse", "red hat", "redhat", "RHEL", "rpm", "slackware", "suse",
        "ubuntu", "yum">>],
    [label |-> "windows", keywords |-> <<
        ".bat", "appveyor", "CloseHandle", "DLL", "GetLastError", "make.bat",
        "microsoft", "mingw", "MSVC", "msys", "NtQuery", "NTSTATUS",
        "NtWow64", "OpenProcess", "studio", "TCHAR", "TerminateProcess",
        "Visual Studio", "WCHAR", "win ", "win10", "win32", "win7",
        "windows error", "windows", "WindowsError", "WinError">>],
    [label |-> "macos", keywords |-> <<
        "big sur", "capitan", "catalina", "darwin", "dylib", "m1", "mac ",
        "macos", "mojave", "mojave", "os x", "osx", "sierra", "xcode",
        "yosemite">>],
    [label |-> "aix", keywords |-> <<"aix">>],
    [label |-> "cygwin", keywords |-> <<"cygwin">>],
    [label |-> "freebsd", keywords |-> <<"freebsd">>],
    [label |-> "netbsd", keywords |-> <<"netbsd">>],
    [label |-> "openbsd", keywords |-> <<"openbsd">>],
    [label |-> "sunos", keywords |-> <<"sunos", "solaris">>],
    [label |-> "wsl", keywords |-> <<"wsl">>],
    [label |-> "unix", keywords |-> <<
        "/dev/pts", "/dev/tty", "_psutil_posix", "psposix", "statvfs",
        "waitpid">>],
    [label |-> "pypy", keywords |-> <<"pypy">>],
    [label |-> "enhancement", keywords |-> <<"enhancement">>],
    [label |-> "memleak", keywords |-> <<
        "memory leak", "leaks memory", "memleak", "mem leak">>],
    [label |-> "api", keywords |-> <<"idea", "proposal", "api", "feature">>],
    [label |-> "performance", keywords |-> <<
        "performance", "speedup", "speed up", "slow", "fast">>],
    [label |-> "wheels", keywords |-> <<"wheel", "wheels">>],
    [label |-> "scripts", keywords |-> <<
        "example dir", "example script", "examples script", "scripts/">>],
    [label |-> "bug", keywords |-> <<
        "can't execute", "can't install", "cannot execute", "cannot install",
        "crash", "critical", "fail", "install error">>],
    [label |-> "doc", keywords |-> <<
        "dev guide", "devguide", "doc ", "docfix", "document ",
        "documentation", "HISTORY", "index.rst", "pythonhosted", "README",
        "readthedocs", "sphinx">>],
    [label |-> "tests", keywords |-> <<
        " test ", "appveyor", "cirrus", "continuous integration", "coverage",
        "pytest", "tests", "travis", "unit test", "unittest">>],
    [label |-> "priority-high", keywords |-> <<
        "core dumped", "MemoryError", "RuntimeError", "segfault",
        "segmentation fault", "SystemError", "WindowsError", "WinError",
        "ZeroDivisionError">>] >>

\* the table after LABELS_MAP['scripts'].extend(...)
LABELS_MAP ==
    [i \in 1..Len(LABELS_MAP_LITERAL) |->
        IF LABELS_MAP_LITERAL[i].label = "scripts"
        THEN [LABELS_MAP_LITERAL[i] EXCEPT !.keywords = @ \o ScriptFiles]
        ELSE LABELS_MAP_LITERAL[i]]

ILLOGICAL_PAIRS == <<
    <<"bug", "enhancement">>,
    <<"doc", "tests">>,
    <<"scripts", "doc">>,
    <<"scripts", "tests">>,
    <<"bsd", "freebsd">>,
    <<"bsd", "openbsd">>,
    <<"bsd", "netbsd">> >>

\* the reply text; its two backquotes, which a string of this language cannot
\* hold, are written as apostrophes
REPLY_MISSING_PYTHON_HEADERS ==
    "It looks like you're missing 'Python.h' headers. This usually means you have "
    \o "to install them first, then retry psutil installation.\n"
    \o "Please read "
    \o "[INSTALL](https://github.com/giampaolo/psutil/blob/master/INSTALL.rst) "
    \o "instructions for your platform. "
    \o "This is an auto-generated response based on the text you submitted. "
    \o "If this was a mistake or you think there's a bug with psutil installation "
    \o "process, please add a comment to reopen this issue.\n"

\* ---------------------------------------------------------------- classifier

\* keyword in text.lower(): the keyword is not lower-cased
KeywordInAsWritten(keyword, lowered) == Contains(lowered, keyword)

\* keyword.lower() in text.lower(), given text.lower()
KeywordIn(keyword, lowered) == Contains(lowered, Lower(keyword))

RECURSIVE GuessKeywords(_, _, _)
\* the inner loop of _guess_labels_from_text: for keyword in keywords
GuessKeywords(label, keywords, lowered) ==
    IF keywords = <<>> THEN <<>>
    ELSE (IF KeywordIn(Head(keywords), lowered)
          THEN << <<label, Head(keywords)>> >>
          ELSE <<>>)
         \o GuessKeywords(label, Tail(keywords), lowered)

RECURSIVE GuessFrom(_, _)
\* the outer loop of _guess_labels_from_text, from table entry i on
GuessFrom(i, lowered) ==
    IF i > Len(LABELS_MAP) THEN <<>>
    ELSE GuessKeywords(LABELS_MAP[i].label, LABELS_MAP[i].keywords, lowered)
         \o GuessFrom(i + 1, lowered)

\* what the generator yields, in order
_guess_labels_from_text(text) ==
    LET lowered == Lower(text) IN GuessFrom(1, lowered)

\* the labels of the yielded pairs, in order: what add_labels_from_text
\* passes to add_label
LabelsOf(pairs) == [i \in 1..Len(pairs) |-> pairs[i][1]]

\* ---------------------------------------------------------------- state

VARIABLES
    event,          \* the parsed event description (_get_event_data)
    title,          \* issue.title
    body,           \* issue.body
    isPr,           \* issue.pull_request is not None, for the fetched issue
    refresh,        \* whether the client's add_to_labels refreshes issue.labels
    issueLabels,    \* names of issue.labels, as the fetched handle reports them
    remoteLabels,   \* labels of the issue in the tracker
    remoteComments, \* comments of the issue in the tracker
    remoteState,    \* state of the issue in the tracker
    calls,          \* remote calls issued so far, in order
    log,            \* messages passed to log(), in order
    invoked,        \* labels add_label was called with, in order
    handlers,       \* event handlers entered, in order
    fieldEntry,     \* issue.labels on entry to add_labels_from_new_body
    text,           \* the text handed to the classifier
    guessed,        \* what _guess_labels_from_text yielded for text
    todo,           \* labels still to be passed to add_label in this step
    kind,           \* branch main() took
    err,            \* exception that ended the run
    pc              \* position in main()

vars == <<event, title, body, isPr, refresh, issueLabels, remoteLabels,
          remoteComments, remoteState, calls, log, invoked, handlers,
          fieldEntry, text, guessed, todo, kind, err, pc>>

\* ---------------------------------------------------------------- github API utils

\* is_pr(issue)
is_pr(pr) == pr

\* has_label(issue, label)
has_label(labels, label) == label \in labels

\* ---------------------------------------------------------------- event utils

\* the numbers of the tracker that are pull requests: n1 is an issue, n2 a
\* pull request
PullRequests == {"n2"}

\* 'issue' in data: the action is not looked at
is_event_new_issue_any_action(data) == data.issue # "absent"

\* data['action'] == 'opened' and 'issue' in data, KeyError -> False
is_event_new_issue(data) ==
    IF data.action = "absent" THEN FALSE
    ELSE data.action = "opened" /\ data.issue # "absent"

\* data['action'] == 'opened' and 'pull_request' in data, KeyError -> False
is_event_new_pr(data) ==
    IF data.action = "absent" THEN FALSE
    ELSE data.action = "opened" /\ data.pull_request # "absent"

\* the lookup with .get('number') in place of ['number']: never raises
IssueNumberLenient(data) ==
    IF data.issue \notin {"absent", "nonumber"} THEN data.issue
    ELSE data.pull_request

\* the number get_issue() fetches, or "KeyError" when the lookup raises
IssueNumber(data) ==
    IF data.issue \notin {"absent", "nonumber"} THEN data.issue
    ELSE IF data.pull_request \notin {"absent", "nonumber"}
         THEN data.pull_request
         ELSE "KeyError"

\* the if/elif with the two tests in the other order
EventKindPrFirst(data) ==
    IF is_event_new_pr(data) THEN "pr"
    ELSE IF is_event_new_issue(data) THEN "issue"
    ELSE "unhandled"

\* the branch of the if/elif/else of main()
EventKind(data) ==
    IF is_event_new_issue(data) THEN "issue"
    ELSE IF is_event_new_pr(data) THEN "pr"
    ELSE "unhandled"

\* the exception of the client is caught and the run goes on
AfterRemoteCaught(ok, next) == next

\* where the run goes after a remote call: an exception of the client is
\* not caught anywhere
AfterRemote(ok, next) == IF ok THEN next ELSE "aborted"

\* ---------------------------------------------------------------- actions

Msg(m, a) == [msg |-> m, arg |-> a]

\* the first pair of ILLOGICAL_PAIRS whose left element is lbl and whose
\* right element the issue has: the condition of the loop of should_add
IllogicalFor(labels, lbl) ==
    \E i \in 1..Len(ILLOGICAL_PAIRS) :
        /\ lbl = ILLOGICAL_PAIRS[i][1]
        /\ has_label(labels, ILLOGICAL_PAIRS[i][2])

\* should_add without the loop over ILLOGICAL_PAIRS
should_add_no_pairs(labels, lbl) ==
    IF has_label(labels, lbl)
    THEN [raised |-> FALSE, value |-> FALSE,
          logged |-> << Msg("already has label %r", lbl) >>]
    ELSE [raised |-> FALSE, value |-> TRUE, logged |-> <<>>]

\* should_add(issue, label) of add_label: the value it returns, the messages
\* it logs, and whether it raises (the % of its second log call)
should_add(labels, lbl) ==
    IF has_label(labels, lbl)
    THEN [raised |-> FALSE, value |-> FALSE,
          logged |-> << Msg("already has label %r", lbl) >>]
    ELSE IF IllogicalFor(labels, lbl)
    THEN IF FormatOk("already has label")
         THEN [raised |-> FALSE, value |-> FALSE,
               logged |-> << Msg("already has label", lbl) >>]
         ELSE [raised |-> TRUE, value |-> FALSE, logged |-> <<>>]
    ELSE [raised |-> FALSE, value |-> ~has_label(labels, lbl), logged |-> <<>>]

\* issue.labels after a successful issue.add_to_labels(label). main() fetches
\* the issue once and never fetches it again; whether the call also updates
\* the labels the handle holds is the client library's matter, and a run may
\* meet either behaviour (refresh).
LabelsAfterAdd(labels, lbl) == IF refresh THEN labels \cup {lbl} ELSE labels

\* add_label(issue, label), called at position pc and returning to next
add_label(lbl, next) ==
    LET sa == should_add(issueLabels, lbl) IN
    /\ invoked' = Append(invoked, lbl)
    /\ IF sa.raised
       THEN /\ err' = "TypeError"
            /\ pc' = "aborted"
            /\ log' = log \o sa.logged
            /\ UNCHANGED <<issueLabels, remoteLabels, calls>>
       ELSE IF ~sa.value
       THEN /\ log' = log \o sa.logged \o << Msg("should not add label %r", lbl) >>
            /\ pc' = next
            /\ UNCHANGED <<issueLabels, remoteLabels, calls, err>>
       ELSE \E ok \in BOOLEAN :
            /\ log' = log \o sa.logged \o << Msg("add label %r", lbl) >>
            /\ calls' = Append(calls, [op |-> "add_to_labels", arg |-> lbl,
                                       ok |-> ok, by |-> pc])
            /\ pc' = AfterRemote(ok, next)
            /\ err' = IF ok THEN err ELSE "RemoteError"
            /\ remoteLabels' = IF ok THEN remoteLabels \cup {lbl} ELSE remoteLabels
            /\ issueLabels' = IF ok THEN LabelsAfterAdd(issueLabels, lbl)
                              ELSE issueLabels

\* main(): issue = get_issue()
GetIssue ==
    /\ pc = "get_issue"
    /\ IF IssueNumber(event) = "KeyError"
       THEN /\ err' = "KeyError"
            /\ pc' = "aborted"
            /\ UNCHANGED <<calls, issueLabels, isPr, log>>
       ELSE \E ok \in BOOLEAN :
            /\ calls' = Append(calls, [op |-> "get_issue", arg |-> IssueNumber(event),
                                       ok |-> ok, by |-> pc])
            /\ pc' = AfterRemote(ok, "dispatch")
            /\ err' = IF ok THEN err ELSE "RemoteError"
            /\ issueLabels' = IF ok THEN remoteLabels ELSE issueLabels
            /\ isPr' = IF ok THEN IssueNumber(event) \in PullRequests ELSE isPr
            /\ log' = IF ok THEN Append(log, Msg("running issue bot for %s %r",
                                                 IF is_pr(isPr') THEN "PR" ELSE "issue"))
                      ELSE log
    /\ UNCHANGED <<event, title, body, refresh, remoteLabels, remoteComments,
                   remoteState, invoked, handlers, fieldEntry, text, guessed,
                   todo, kind>>

\* main(): the if/elif/else on the event, up to the call of
\* add_labels_from_text(issue, issue.title)
Dispatch ==
    /\ pc = "dispatch"
    /\ kind' = EventKind(event)
    /\ IF EventKind(event) = "unhandled"
       THEN /\ log' = Append(log, Msg("unhandled event", ""))
            /\ pc' = "done"
            /\ UNCHANGED <<text, guessed, todo>>
       ELSE /\ log' = Append(log, Msg(IF EventKind(event) = "issue"
                                      THEN "created new issue %s"
                                      ELSE "created new PR %s", ""))
            /\ text' = title
            /\ guessed' = _guess_labels_from_text(title)
            /\ todo' = LabelsOf(guessed')
            /\ pc' = "title"
    /\ UNCHANGED <<event, title, body, isPr, refresh, issueLabels, remoteLabels,
                   remoteComments, remoteState, calls, invoked, handlers,
                   fieldEntry, err>>

LabelSteps == {"title", "os", "bugfix", "type"}

\* one add_label call of add_labels_from_text or add_labels_from_new_body
AddLabel ==
    /\ pc \in LabelSteps
    /\ todo # <<>>
    /\ add_label(Head(todo), pc)
    /\ todo' = Tail(todo)
    /\ UNCHANGED <<event, title, body, isPr, refresh, remoteComments, remoteState,
                   handlers, fieldEntry, text, guessed, kind>>

\* add_labels_from_new_body: the 'OS: ...' line
SearchOs ==
    /\ pc = "title"
    /\ todo = <<>>
    /\ fieldEntry' = [entered |-> TRUE, labels |-> issueLabels]
    /\ LET r == ReSearch("* OS:", body) IN
       /\ log' = log \o << Msg("search for 'OS: ...' line", ""),
                           Msg(IF r.found THEN "found" ELSE "not found", "") >>
       /\ text' = IF r.found THEN r.group ELSE text
       /\ guessed' = IF r.found THEN _guess_labels_from_text(r.group) ELSE guessed
       /\ todo' = IF r.found THEN LabelsOf(guessed') ELSE <<>>
    /\ pc' = "os"
    /\ UNCHANGED <<event, title, body, isPr, refresh, issueLabels, remoteLabels,
                   remoteComments, remoteState, calls, invoked, handlers, kind, err>>

\* the label the 'Bug fix: y/n' line asks for, as a sequence of add_label calls
BugFixLabels(pr, labels, txt) ==
    LET r == ReSearch("* Bug fix:", txt) IN
    IF /\ is_pr(pr)
       /\ r.found
       /\ ~has_label(labels, "bug")
       /\ ~has_label(labels, "enhancement")
    THEN IF Contains(Lower(r.group), "yes") THEN <<"bug">> ELSE <<"enhancement">>
    ELSE <<>>

\* add_labels_from_new_body: the 'Bug fix: y/n' line
SearchBugFix ==
    /\ pc = "os"
    /\ todo = <<>>
    /\ todo' = BugFixLabels(isPr, issueLabels, body)
    /\ log' = log \o << Msg("search for 'Bug fix: y/n' line", ""),
                        Msg(IF todo' # <<>> THEN "found" ELSE "not found", "") >>
    /\ pc' = "bugfix"
    /\ UNCHANGED <<event, title, body, isPr, refresh, issueLabels, remoteLabels,
                   remoteComments, remoteState, calls, invoked, handlers,
                   fieldEntry, text, guessed, kind, err>>

TYPE_LABELS == <<"doc", "performance", "scripts", "tests", "wheels", "new-api",
                 "new-platform">>

\* the labels the 'Type: ...' line asks for, in the order of the if statements
TypeLabels(txt) ==
    LET r == ReSearch("* Type:", txt)
        s == Lower(r.group)
        Present(l) == Contains(s, l)
    IN  IF r.found THEN SelectSeq(TYPE_LABELS, Present) ELSE <<>>

\* add_labels_from_new_body: the 'Type: ...' line
SearchType ==
    /\ pc = "bugfix"
    /\ todo = <<>>
    /\ todo' = TypeLabels(body)
    /\ log' = log \o << Msg("search for 'Type: ...' line", ""),
                        Msg(IF ReSearch("* Type:", body).found
                            THEN "found" ELSE "not found", "") >>
    /\ pc' = "type"
    /\ UNCHANGED <<event, title, body, isPr, refresh, issueLabels, remoteLabels,
                   remoteComments, remoteState, calls, invoked, handlers,
                   fieldEntry, text, guessed, kind, err>>

\* the condition of on_new_issue: a missing Python.h signature
MissingPythonH(ttl, bdy) ==
    LET has_text(t) == Contains(Lower(ttl), t) \/ Contains(Lower(bdy), t) IN
    \/ has_text("missing python.h")
    \/ has_text("python.h: no such file or directory")
    \/ Contains(RemoveSpaces(bdy), "#include<Python.h>\n^~~~")
    \/ Contains(RemoveSpaces(bdy), "#include<Python.h>\r\n^~~~")

\* on_new_issue(issue), up to issue.create_comment(...)
OnNewIssue ==
    /\ pc = "type"
    /\ todo = <<>>
    /\ kind = "issue"
    /\ handlers' = Append(handlers, "on_new_issue")
    /\ IF MissingPythonH(title, body)
       THEN \E ok \in BOOLEAN :
            /\ log' = log \o << Msg("searching for missing Python.h", ""),
                                Msg("found", "") >>
            /\ calls' = Append(calls, [op |-> "create_comment",
                                       arg |-> REPLY_MISSING_PYTHON_HEADERS,
                                       ok |-> ok, by |-> "on_new_issue"])
            /\ remoteComments' = IF ok
                                 THEN Append(remoteComments, REPLY_MISSING_PYTHON_HEADERS)
                                 ELSE remoteComments
            /\ pc' = AfterRemote(ok, "close")
            /\ err' = IF ok THEN err ELSE "RemoteError"
       ELSE /\ log' = Append(log, Msg("searching for missing Python.h", ""))
            /\ pc' = "done"
            /\ UNCHANGED <<calls, remoteComments, err>>
    /\ UNCHANGED <<event, title, body, isPr, refresh, issueLabels, remoteLabels,
                   remoteState, invoked, fieldEntry, text, guessed, todo, kind>>

\* on_new_issue(issue): issue.edit(state='closed') and return
CloseIssue ==
    /\ pc = "close"
    /\ \E ok \in BOOLEAN :
       /\ calls' = Append(calls, [op |-> "edit", arg |-> "closed",
                                  ok |-> ok, by |-> "on_new_issue"])
       /\ remoteState' = IF ok THEN "closed" ELSE remoteState
       /\ pc' = AfterRemote(ok, "done")
       /\ err' = IF ok THEN err ELSE "RemoteError"
    /\ UNCHANGED <<event, title, body, isPr, refresh, issueLabels, remoteLabels,
                   remoteComments, log, invoked, handlers, fieldEntry, text,
                   guessed, todo, kind>>

\* on_new_pr(issue): pass
OnNewPr ==
    /\ pc = "type"
    /\ todo = <<>>
    /\ kind = "pr"
    /\ handlers' = Append(handlers, "on_new_pr")
    /\ pc' = "done"
    /\ UNCHANGED <<event, title, body, isPr, refresh, issueLabels, remoteLabels,
                   remoteComments, remoteState, calls, log, invoked, fieldEntry,
                   text, guessed, todo, kind, err>>

\* ---------------------------------------------------------------- one run of main()

Events ==
    [action : {"opened", "edited", "absent"},
     issue : {"absent", "nonumber", "n1"},
     pull_request : {"absent", "nonumber", "n2"}]

Titles ==
    {"build fails",
     "Ubuntu Linux: README update",
     "missing Python.h",
     "enhancement: crash in tests"}

Bodies ==
    {"",
     "fatal error: Python.h: No such file or directory",
     "* OS: FreeBSD\n* Bug fix: yes\n* Type: doc, tests\n",
     "* Bug fix: no\n* Type: scripts",
     "* OS: see README\n* Bug fix: YES\n",
     " #include <Python.h>\n          ^~~~~~~~~~"}

InitialLabelUniverse == {"bug", "enhancement", "tests", "freebsd"}

InitialLabelSets ==
    {S \in SUBSET InitialLabelUniverse : Cardinality(S) <= MaxInitialLabels}

Init ==
    /\ event \in Events
    /\ title \in Titles
    /\ body \in Bodies
    /\ isPr = FALSE
    /\ refresh \in BOOLEAN
    /\ remoteLabels \in InitialLabelSets
    /\ issueLabels = {}
    /\ remoteComments = <<>>
    /\ remoteState = "open"
    /\ calls = <<>>
    /\ log = <<>>
    /\ invoked = <<>>
    /\ handlers = <<>>
    /\ fieldEntry = [entered |-> FALSE, labels |-> {}]
    /\ text = ""
    /\ guessed = <<>>
    /\ todo = <<>>
    /\ kind = "none"
    /\ err = "none"
    /\ pc = "get_issue"

Next ==
    \/ GetIssue
    \/ Dispatch
    \/ AddLabel
    \/ SearchOs
    \/ SearchBugFix
    \/ SearchType
    \/ OnNewIssue
    \/ CloseIssue
    \/ OnNewPr

Spec == Init /\ [][Next]_vars

\* ---------------------------------------------------------------- add_label on one handle

CallerLabels ==
    {"bsd", "freebsd", "openbsd", "netbsd", "bug", "enhancement", "doc",
     "tests", "scripts", "linux"}

InitAddLabel ==
    /\ event = [action |-> "opened", issue |-> "n1", pull_request |-> "absent"]
    /\ title = ""
    /\ body = ""
    /\ isPr = FALSE
    /\ refresh \in BOOLEAN
    /\ remoteLabels \in {S \in SUBSET CallerLabels : Cardinality(S) <= MaxInitialLabels}
    /\ issueLabels = remoteLabels
    /\ remoteComments = <<>>
    /\ remoteState = "open"
    /\ calls = <<>>
    /\ log = <<>>
    /\ invoked = <<>>
    /\ handlers = <<>>
    /\ fieldEntry = [entered |-> FALSE, labels |-> {}]
    /\ text = ""
    /\ guessed = <<>>
    /\ todo = <<>>
    /\ kind = "none"
    /\ err = "none"
    /\ pc = "caller"

\* a caller applies add_label(issue, label) to the handle it holds
CallAddLabel ==
    /\ pc = "caller"
    /\ Len(invoked) < MaxCalls
    /\ \E lbl \in CallerLabels : add_label(lbl, "caller")
    /\ UNCHANGED <<event, title, body, isPr, refresh, remoteComments, remoteState,
                   handlers, fieldEntry, text, guessed, todo, kind>>

NextAddLabel == CallAddLabel

SpecAddLabel == InitAddLabel /\ [][NextAddLabel]_vars

\* ---------------------------------------------------------------- the classifier on one text

Fragments ==
    {"", "Ubuntu", "RHEL 8", "mojave", "AppVeyor", "WinError", "top.py", "doc"}

RECURSIVE TextsOf(_)
\* the texts made of at most n fragments
TextsOf(n) ==
    IF n = 0 THEN {""}
    ELSE TextsOf(n - 1) \cup {t \o " " \o f : t \in TextsOf(n - 1), f \in Fragments}

InitClassify ==
    /\ event = [action |-> "opened", issue |-> "n1", pull_request |-> "absent"]
    /\ title = ""
    /\ body = ""
    /\ isPr = FALSE
    /\ refresh = FALSE
    /\ remoteLabels = {}
    /\ issueLabels = {}
    /\ remoteComments = <<>>
    /\ remoteState = "open"
    /\ calls = <<>>
    /\ log = <<>>
    /\ invoked = <<>>
    /\ handlers = <<>>
    /\ fieldEntry = [entered |-> FALSE, labels |-> {}]
    /\ text \in TextsOf(MaxWords)
    /\ guessed = <<>>
    /\ todo = <<>>
    /\ kind = "none"
    /\ err = "none"
    /\ pc = "classify"

\* the generator is run to its end on the text
Classify ==
    /\ pc = "classify"
    /\ guessed' = _guess_labels_from_text(text)
    /\ pc' = "classified"
    /\ UNCHANGED <<event, title, body, isPr, refresh, issueLabels, remoteLabels,
                   remoteComments, remoteState, calls, log, invoked, handlers,
                   fieldEntry, text, todo, kind, err>>

NextClassify == Classify

SpecClassify == InitClassify /\ [][NextClassify]_vars

\* ---------------------------------------------------------------- properties

Finished == pc \in {"done", "aborted"}

Mutations == {"add_to_labels", "create_comment", "edit"}

\* the positions of calls whose operation is op
CallsOf(op) == {i \in DOMAIN calls : calls[i].op = op}

\* no call that changes the issue has been issued
NoMutationCall == \A i \in DOMAIN calls : calls[i].op \notin Mutations

\* C1: within one run no label receives more than one remote add-label
\* call: a second add_label for a label is stopped by the already-has-label
\* check.
C1_OneAddPerLabel ==
    \A i, j \in CallsOf("add_to_labels") : calls[i].arg = calls[j].arg => i = j

\* C2: in a new-issue run whose title or body holds a missing-Python.h
\* signature, and in which no remote call fails, on_new_issue posts exactly
\* one comment, REPLY_MISSING_PYTHON_HEADERS, and then issues exactly one
\* edit to state 'closed'; the close never comes before or without the
\* comment and no remote call follows it.
C2_MissingHeaderReply ==
    /\ \A i \in CallsOf("edit") :
          /\ i = Len(calls)
          /\ i > 1
          /\ calls[i - 1].op = "create_comment"
          /\ calls[i - 1].ok
    /\ (Finished /\ err # "RemoteError" /\ kind = "issue"
        /\ MissingPythonH(title, body))
       => /\ Cardinality(CallsOf("create_comment")) = 1
          /\ Cardinality(CallsOf("edit")) = 1
          /\ Len(calls) >= 2
          /\ calls[Len(calls) - 1].op = "create_comment"
          /\ calls[Len(calls) - 1].arg = REPLY_MISSING_PYTHON_HEADERS
          /\ calls[Len(calls)].op = "edit"
          /\ calls[Len(calls)].arg = "closed"

\* add_label has just been called with the left element of an illogical pair
\* on a handle that reports the right element
IllogicalCall ==
    /\ Len(invoked') = Len(invoked) + 1
    /\ \E i \in 1..Len(ILLOGICAL_PAIRS) :
          /\ invoked'[Len(invoked')] = ILLOGICAL_PAIRS[i][1]
          /\ ILLOGICAL_PAIRS[i][2] \in issueLabels

C4_SkipIsNotAnError ==
    [][(pc \in LabelSteps /\ IllogicalCall)
          => /\ pc' = pc
             /\ err' = "none"
             /\ todo' = Tail(todo)]_vars

\* C5: in a run that enters add_labels_from_new_body and in which no remote
\* call fails, the 'Bug fix' line of a pull request that carries neither
\* 'bug' nor 'enhancement' leads to exactly one add-label call, for 'bug'
\* when the lower-cased line contains 'yes' and for 'enhancement'
\* otherwise; for any other issue it leads to no remote call.
C5_BugFixField ==
    (Finished /\ err # "RemoteError" /\ fieldEntry.entered)
    => LET r == ReSearch("* Bug fix:", body)
           byField == {i \in DOMAIN calls : calls[i].by = "bugfix"}
       IN  IF /\ isPr
              /\ r.found
              /\ fieldEntry.labels \cap {"bug", "enhancement"} = {}
           THEN /\ Cardinality(byField) = 1
                /\ \A i \in byField :
                      /\ calls[i].op = "add_to_labels"
                      /\ calls[i].arg = IF Contains(Lower(r.group), "yes")
                                        THEN "bug" ELSE "enhancement"
           ELSE byField = {}

\* C6: for an event whose action is not 'opened' the run issues no remote
\* mutation, enters no handler and calls add_label for nothing; when it
\* completes it has taken the 'unhandled event' branch and that message is
\* the last it logged.
C6_UnhandledNoMutation ==
    (event.action # "opened")
    => /\ NoMutationCall
       /\ invoked = <<>>
       /\ handlers = <<>>
       /\ remoteComments = <<>>
       /\ remoteState = "open"
       /\ pc \in {"get_issue", "dispatch", "done", "aborted"}
       /\ pc = "done" => /\ kind = "unhandled"
                         /\ log[Len(log)] = Msg("unhandled event", "")
                         /\ Len(log) = 2

\* a run for an 'edited' event has completed
C6_Witness ==
    /\ event.action = "edited"
    /\ event.issue = "n1"
    /\ pc = "done"
    /\ kind = "unhandled"
    /\ Len(calls) = 1

\* the positions (i, k) of the table whose keyword occurs in txt, compared
\* without regard to case
Occurring(txt) ==
    {p \in UNION {{<<i, k>> : k \in 1..Len(LABELS_MAP[i].keywords)} :
                    i \in 1..Len(LABELS_MAP)} :
        LET kw == LABELS_MAP[p[1]].keywords[p[2]] IN
        \E j \in 1..(Len(txt) - Len(kw) + 1) :
            Lower(SubSeq(txt, j, j + Len(kw) - 1)) = Lower(kw)}

\* position p comes before position q in the table
Before(p, q) == p[1] < q[1] \/ (p[1] = q[1] /\ p[2] < q[2])

\* C7: _guess_labels_from_text yields the pair (label, keyword) for every
\* keyword of the table that occurs in the text as a case-insensitive
\* substring and no other pair, in the table's order, one pair per
\* occurring keyword (labels are not de-duplicated).
C7_ClassifierCorrect ==
    (pc = "classified")
    => LET occ == Occurring(text) IN
       /\ Len(guessed) = Cardinality(occ)
       /\ \A p \in occ :
             guessed[Cardinality({q \in occ : Before(q, p)}) + 1]
                = <<LABELS_MAP[p[1]].label, LABELS_MAP[p[1]].keywords[p[2]]>>

\* a text was classified that matches an upper-case keyword and two keywords
\* of one label
C7_Witness ==
    /\ pc = "classified"
    /\ \E i \in DOMAIN guessed : guessed[i] = <<"linux", "RHEL">>
    /\ \E i, j \in DOMAIN guessed : i # j /\ guessed[i][1] = guessed[j][1]

\* C8 as stated: the run is a new-issue run exactly when the action is
\* 'opened' and an issue field is present, a new-PR run exactly when the
\* action is 'opened' and a pull_request field is present.
C8_KindAsStated ==
    (kind # "none")
    => /\ kind = "issue" <=> (event.action = "opened" /\ event.issue # "absent")
       /\ kind = "pr" <=> (event.action = "opened" /\ event.pull_request # "absent")

\* C8, amended: the run is a new-issue run exactly when the action is
\* 'opened' and an issue field is present, a new-PR run exactly when the
\* action is 'opened', a pull_request field is present and no issue field
\* is, and unhandled otherwise; at most one handler is entered, the one of
\* the run's kind, and a new-PR run issues no comment and no state edit.
C8_KindExclusive ==
    /\ (kind # "none")
       => /\ kind = "issue" <=> (event.action = "opened" /\ event.issue # "absent")
          /\ kind = "pr" <=> /\ event.action = "opened"
                             /\ event.pull_request # "absent"
                             /\ event.issue = "absent"
          /\ kind \in {"issue", "pr", "unhandled"}
    /\ Len(handlers) <= 1
    /\ \A i \in DOMAIN handlers :
          handlers[i] = IF kind = "issue" THEN "on_new_issue" ELSE "on_new_pr"
    /\ (kind = "pr") => /\ CallsOf("create_comment") = {}
                        /\ CallsOf("edit") = {}
                        /\ remoteComments = <<>>
                        /\ remoteState = "open"

\* a new-PR run has gone through on_new_pr
C8_Witness ==
    /\ pc = "done"
    /\ kind = "pr"
    /\ handlers = <<"on_new_pr">>
    /\ event.pull_request = "n2"

\* some remote call has failed
SomeCallFailed == \E i \in DOMAIN calls : ~calls[i].ok

\* C9: a failed remote call ends the run with the client's error, changes
\* nothing in the tracker, and is followed by no remote call; what the
\* successful calls before it did stays in the tracker.
C9_RemoteFailureAborts ==
    /\ [](/\ SomeCallFailed => (pc = "aborted" /\ err = "RemoteError")
          /\ \A i \in DOMAIN calls :
                calls[i].ok =>
                   /\ calls[i].op = "add_to_labels" => calls[i].arg \in remoteLabels
                   /\ calls[i].op = "create_comment"
                         => \E k \in DOMAIN remoteComments :
                               remoteComments[k] = calls[i].arg
                   /\ calls[i].op = "edit" => remoteState = calls[i].arg)
    /\ [][/\ SomeCallFailed
             => UNCHANGED <<calls, remoteLabels, remoteComments, remoteState>>
          /\ (Len(calls') > Len(calls) /\ ~calls'[Len(calls')].ok)
             => UNCHANGED <<remoteLabels, remoteComments, remoteState>>]_vars

\* an add-label call failed after another one had succeeded
C9_Witness ==
    /\ pc = "aborted"
    /\ err = "RemoteError"
    /\ Len(calls) >= 3
    /\ calls[2].op = "add_to_labels" /\ calls[2].ok
    /\ calls[Len(calls)].op = "add_to_labels" /\ ~calls[Len(calls)].ok
    /\ calls[2].arg \in remoteLabels

\* the event lacks the action field, or both the issue and the pull_request
\* field, or the number of the issue or of the pull_request field
LacksField ==
    \/ event.action = "absent"
    \/ (event.issue = "absent" /\ event.pull_request = "absent")
    \/ event.issue = "nonumber"
    \/ event.pull_request = "nonumber"

\* C10 as stated: a run on an event that lacks an expected field never
\* completes, takes no branch of main() and makes no remote mutation.
C10_MalformedFatalAsStated ==
    LacksField => (pc # "done" /\ kind = "none" /\ NoMutationCall)

\* neither the issue field nor the pull_request field holds a number
NoNumber ==
    /\ event.issue \in {"absent", "nonumber"}
    /\ event.pull_request \in {"absent", "nonumber"}

\* C10, amended: an event in which neither the issue field nor the
\* pull_request field holds a number is fatal: the run ends in get_issue
\* with a KeyError before any remote call. An event that lacks only the
\* action field is not fatal: the run completes as 'unhandled event', with
\* no remote mutation.
C10_MalformedFatal ==
    /\ NoNumber => /\ calls = <<>>
                   /\ kind = "none"
                   /\ pc \in {"get_issue", "aborted"}
                   /\ pc = "aborted" => err = "KeyError"
    /\ (event.action = "absent" /\ ~NoNumber)
       => /\ NoMutationCall
          /\ err # "KeyError"
          /\ pc = "done" => kind = "unhandled"

\* a run on an event without a number has ended with the KeyError
C10_Witness ==
    /\ event.issue = "nonumber"
    /\ event.pull_request = "absent"
    /\ pc = "aborted"
    /\ err = "KeyError"
    /\ calls = <<>>

====
